---- MODULE Spec2Model ----
(***************************************************************************)
(* Model of the rule enforces-negative-arbitrary-values                    *)
(* (lib/rules/enforces-negative-arbitrary-values.js).                      *)
(*                                                                         *)
(* A JavaScript string is a sequence of one-character strings.  A state is *)
(* the outcome of the last visitor callback the host engine invoked: the   *)
(* site node, the log of the invocations of                                *)
(* parseForNegativeArbitraryClassNames, and what context.report received.  *)
(***************************************************************************)
EXTENDS Integers, Sequences, FiniteSets, TLC

VARIABLES options, site, calls, reports

vars == <<options, site, calls, reports>>

(***************************************************************************)
(* Bounds of the model.                                                    *)
(***************************************************************************)
\* nesting depth of the expression trees handed to the script visitors
MaxDepth == 2
\* length of the bracketed arbitrary value in the enumerated class names
MaxContent == 2

(***************************************************************************)
(* Characters and strings.                                                 *)
(***************************************************************************)
\* String.prototype.trim / the \s class: the white space of the inputs
IsSpace(c) == c \in {" ", "\t", "\n", "\r"}

\* the characters the regular expression's dot does not match
IsLineTerminator(c) == c \in {"\n", "\r"}

\* the /i flag: ASCII letters compare without case (the pattern is lower case)
ToLower(c) ==
  CASE c = "T" -> "t"
    [] c = "O" -> "o"
    [] c = "P" -> "p"
    [] c = "S" -> "s"
    [] c = "K" -> "k"
    [] c = "E" -> "e"
    [] c = "W" -> "w"
    [] c = "X" -> "x"
    [] c = "M" -> "m"
    [] OTHER -> c

LowerCase(s) == [i \in 1..Len(s) |-> ToLower(s[i])]

(***************************************************************************)
(* Regular expressions: literal, alternation, concatenation, optional      *)
(* group and the greedy dot-star.  Ends(re, s, i) is the set of positions  *)
(* at which a match of re that starts at position i of s can end, which is *)
(* what a backtracking matcher explores.                                   *)
(***************************************************************************)
RLit(s) == [op |-> "lit", s |-> s]
RAlt(rs) == [op |-> "alt", rs |-> rs]
RSeq(rs) == [op |-> "seq", rs |-> rs]
ROpt(r) == [op |-> "opt", r |-> r]
RDotStar == [op |-> "dotstar"]

RECURSIVE Ends(_, _, _)
RECURSIVE EndsSeq(_, _, _, _)

Ends(re, s, i) ==
  CASE re.op = "lit" ->
         IF /\ i + Len(re.s) - 1 <= Len(s)
            /\ SubSeq(s, i, i + Len(re.s) - 1) = re.s
         THEN {i + Len(re.s)} ELSE {}
    [] re.op = "alt" -> UNION {Ends(re.rs[k], s, i) : k \in DOMAIN re.rs}
    [] re.op = "seq" -> EndsSeq(re.rs, 1, s, {i})
    [] re.op = "opt" -> {i} \cup Ends(re.r, s, i)
    [] re.op = "dotstar" ->
         {j \in i..(Len(s) + 1) : \A k \in i..(j - 1) : ~IsLineTerminator(s[k])}

EndsSeq(rs, k, s, from) ==
  IF k > Len(rs) THEN from
  ELSE EndsSeq(rs, k + 1, s, UNION {Ends(rs[k], s, i) : i \in from})

\* /^\-((inset|scale)(\-(y|x))?|top|right|bottom|left|top|z|order
\*   |(scroll\-)?m(y|x|t|r|l|b)?|(skew|space|translate)\-(y|x)|rotate
\*   |tracking|indent|(backdrop\-)?hue\-rotate)\-\[.*\]$/i
propertyFamilies ==
  <<RSeq(<<RAlt(<<RLit(<<"i","n","s","e","t">>), RLit(<<"s","c","a","l","e">>)>>),
           ROpt(RSeq(<<RLit(<<"-">>), RAlt(<<RLit(<<"y">>), RLit(<<"x">>)>>)>>))>>),
    RLit(<<"t","o","p">>),
    RLit(<<"r","i","g","h","t">>),
    RLit(<<"b","o","t","t","o","m">>),
    RLit(<<"l","e","f","t">>),
    RLit(<<"t","o","p">>),
    RLit(<<"z">>),
    RLit(<<"o","r","d","e","r">>),
    RSeq(<<ROpt(RLit(<<"s","c","r","o","l","l","-">>)),
           RLit(<<"m">>),
           ROpt(RAlt(<<RLit(<<"y">>), RLit(<<"x">>), RLit(<<"t">>),
                       RLit(<<"r">>), RLit(<<"l">>), RLit(<<"b">>)>>))>>),
    RSeq(<<RAlt(<<RLit(<<"s","k","e","w">>), RLit(<<"s","p","a","c","e">>),
                  RLit(<<"t","r","a","n","s","l","a","t","e">>)>>),
           RLit(<<"-">>),
           RAlt(<<RLit(<<"y">>), RLit(<<"x">>)>>)>>),
    RLit(<<"r","o","t","a","t","e">>),
    RLit(<<"t","r","a","c","k","i","n","g">>),
    RLit(<<"i","n","d","e","n","t">>),
    RSeq(<<ROpt(RLit(<<"b","a","c","k","d","r","o","p","-">>)),
           RLit(<<"h","u","e","-","r","o","t","a","t","e">>)>>)>>

\* ^\- ( families ) \-\[ .* \] $
negativeArbitrary(families) ==
  RSeq(<<RLit(<<"-">>), RAlt(families), RLit(<<"-","[">>), RDotStar, RLit(<<"]">>)>>)

\* the pattern with its last alternative, (backdrop\-)?hue\-rotate, left out
negArbitraryValRegEx_FamilyMissing ==
  negativeArbitrary(SubSeq(propertyFamilies, 1, Len(propertyFamilies) - 1))

negArbitraryValRegEx == negativeArbitrary(propertyFamilies)

\* test without the anchor $: a match of a prefix of s counts
RegExpTest_Unanchored(re, s) == Ends(re, LowerCase(s), 1) # {}

\* RegExp.prototype.test with the anchors ^ and $ and the flag i
RegExpTest(re, s) == (Len(s) + 1) \in Ends(re, LowerCase(s), 1)

(***************************************************************************)
(* The helpers of lib/util the rule calls.                                 *)
(***************************************************************************)
\* groupUtil.getSuffix: what follows the last occurrence of the separator
getSuffix(cls, separator) ==
  LET at == {i \in 1..Len(cls) : cls[i] = separator}
  IN  IF at = {} THEN cls
      ELSE SubSeq(cls, (CHOOSE i \in at : \A j \in at : j <= i) + 1, Len(cls))

\* String.prototype.trim
Trim(s) ==
  LET ink == {i \in 1..Len(s) : ~IsSpace(s[i])}
  IN  IF ink = {} THEN <<>>
      ELSE SubSeq(s, CHOOSE i \in ink : \A j \in ink : i <= j,
                     CHOOSE i \in ink : \A j \in ink : j <= i)

\* the pieces of s between runs of white space, the empty ones dropped
RECURSIVE SplitOnSpace(_, _, _)
SplitOnSpace(s, i, cur) ==
  IF i > Len(s) THEN (IF cur = <<>> THEN <<>> ELSE <<cur>>)
  ELSE IF IsSpace(s[i])
       THEN (IF cur = <<>> THEN <<>> ELSE <<cur>>) \o SplitOnSpace(s, i + 1, <<>>)
       ELSE SplitOnSpace(s, i + 1, Append(cur, s[i]))

\* a JavaScript value: a string, or a value of another type
JsString(s) == [typeof |-> "string", chars |-> s]
JsNumber == [typeof |-> "number", chars |-> <<>>]
JsNull == [typeof |-> "object", chars |-> <<>>]
JsUndefined == [typeof |-> "undefined", chars |-> <<>>]

\* attrUtil.getClassNamesFromAttribute: the class names of a value, in order
getClassNamesFromAttribute(value, trim) ==
  IF value.typeof # "string" THEN <<>>
  ELSE SplitOnSpace(IF trim THEN Trim(value.chars) ELSE value.chars, 1, <<>>)

\* the pattern tested against the class name, its variant prefix included
isDetected_WholeName(cls, separator) == RegExpTest(negArbitraryValRegEx, cls)

\* the callback of classNames.filter (lines 132-137)
isDetected(cls, separator) ==
  RegExpTest(negArbitraryValRegEx, getSuffix(cls, separator))

(***************************************************************************)
(* The syntax tree of the host (ESTree).  A path names a child of the site *)
(* by the fields that lead to it: <<"arguments", 1>>, <<"right", 0>>, ...  *)
(***************************************************************************)
\* the value null: a hole of an array literal, or an omitted argument
NULL == [isNull |-> TRUE]

Literal(value) == [type |-> "Literal", value |-> value]
Identifier == [type |-> "Identifier", name |-> "x"]
TemplateElement(raw) ==
  [type |-> "TemplateElement", value |-> [raw |-> JsString(raw)]]
TemplateLiteral(expressions, quasis) ==
  [type |-> "TemplateLiteral", expressions |-> expressions, quasis |-> quasis]
ConditionalExpression(consequent, alternate) ==
  [type |-> "ConditionalExpression", test |-> Identifier,
   consequent |-> consequent, alternate |-> alternate]
LogicalExpression(left, right) ==
  [type |-> "LogicalExpression", left |-> left, right |-> right]
ArrayExpression(elements) == [type |-> "ArrayExpression", elements |-> elements]
ObjectExpression(properties) ==
  [type |-> "ObjectExpression", properties |-> properties]
Property(key, value) == [type |-> "Property", key |-> key, value |-> value]
SpreadElement(argument) == [type |-> "SpreadElement", argument |-> argument]

Child(label, index, node) == [step |-> <<label, index>>, node |-> node]

\* the literal pieces left out
TemplateLiteralChildren_ExpressionsOnly(arg) ==
  [i \in 1..Len(arg.expressions) |-> Child("expressions", i, arg.expressions[i])]

\* lines 82-89: every interpolation, then every literal piece
TemplateLiteralChildren(arg) ==
  [i \in 1..Len(arg.expressions) |-> Child("expressions", i, arg.expressions[i])]
  \o [i \in 1..Len(arg.quasis) |-> Child("quasis", i, arg.quasis[i])]

\* the branches taken in the other order
ConditionalExpressionChildren_AlternateFirst(arg) ==
  <<Child("alternate", 0, arg.alternate), Child("consequent", 0, arg.consequent)>>

\* lines 90-93: the consequent, then the alternate
ConditionalExpressionChildren(arg) ==
  <<Child("consequent", 0, arg.consequent), Child("alternate", 0, arg.alternate)>>

\* both operands
LogicalExpressionChildren_Both(arg) ==
  <<Child("left", 0, arg.left), Child("right", 0, arg.right)>>

\* lines 94-96: the right operand alone
LogicalExpressionChildren(arg) == <<Child("right", 0, arg.right)>>

\* lines 97-101: every element, a hole (null) included
ArrayExpressionChildren(arg) ==
  [i \in 1..Len(arg.elements) |-> Child("elements", i, arg.elements[i])]

\* the value of a property in place of its key
ObjectExpressionChildren_Values(arg) ==
  [i \in 1..Len(arg.properties) |->
     IF arg.properties[i].type = "SpreadElement"
     THEN Child("argument", i, arg.properties[i].argument)
     ELSE Child("value", i, arg.properties[i].value)]

\* lines 102-114: the argument of a spread, the key of any other property
ObjectExpressionChildren(arg) ==
  [i \in 1..Len(arg.properties) |->
     IF arg.properties[i].type = "SpreadElement"
     THEN Child("argument", i, arg.properties[i].argument)
     ELSE Child("key", i, arg.properties[i].key)]

\* the cases of the switch that recurse and return (lines 82-114)
Recursing ==
  {"TemplateLiteral", "ConditionalExpression", "LogicalExpression",
   "ArrayExpression", "ObjectExpression"}

ChildrenOf(arg) ==
  CASE arg.type = "TemplateLiteral" -> TemplateLiteralChildren(arg)
    [] arg.type = "ConditionalExpression" -> ConditionalExpressionChildren(arg)
    [] arg.type = "LogicalExpression" -> LogicalExpressionChildren(arg)
    [] arg.type = "ArrayExpression" -> ArrayExpressionChildren(arg)
    [] arg.type = "ObjectExpression" -> ObjectExpressionChildren(arg)

\* astUtil.extractValueFromNode: the value of the attribute the site is; a
\* site of another kind has none
extractValueFromNode(node) ==
  IF node.type \in {"JSXAttribute", "TextAttribute", "VAttribute"}
  THEN node.value
  ELSE JsUndefined

\* astUtil.isValidJSXAttribute, astUtil.isValidVueAttribute
isValidAttribute(node) ==
  node.name \in {"class", "className"} /\ node.value.typeof # "undefined"

\* one invocation of parseForNegativeArbitraryClassNames, as logged:
\* where arg lies under the site, whether the branch arg === null ran,
\* and (when line 130 was reached) the value and the flag handed on
Invocation(path, argIsNull, reached, value, trim) ==
  [path |-> path, argIsNull |-> argIsNull, reached |-> reached,
   value |-> value, trim |-> trim]

\* lines 76-127 for an arg that does not recurse: originalClassNamesValue
originalClassNamesValue(node, arg) ==
  IF arg = NULL THEN extractValueFromNode(node)
  ELSE CASE arg.type = "Literal" -> arg.value
         [] arg.type = "TemplateElement" -> arg.value.raw
         [] OTHER -> JsNull

\* lines 76-127: trim
trimOf(arg) == IF arg = NULL THEN FALSE ELSE arg.type = "Literal"

\* lines 132-137: classNames.filter keeps the order of classNames
RECURSIVE filterDetected(_, _, _)
filterDetected(classNames, i, separator) ==
  IF i > Len(classNames) THEN <<>>
  ELSE (IF isDetected(classNames[i], separator)
        THEN <<[classname |-> classNames[i], index |-> i]>> ELSE <<>>)
       \o filterDetected(classNames, i + 1, separator)

\* a class name detected twice in a value reported once
reportDetected_Deduplicated(node, detected, path) ==
  LET first == SelectSeq(detected,
                 LAMBDA d : \A k \in 1..(d.index - 1) :
                   \A j \in 1..Len(detected) :
                     detected[j].index = k => detected[j].classname # d.classname)
  IN  [k \in 1..Len(first) |->
         [node |-> node, messageId |-> "negativeArbitraryValue",
          data |-> [classname |-> first[k].classname],
          from |-> [path |-> path, index |-> first[k].index]]]

\* lines 139-147: one context.report per detected class name.  from is not
\* part of the report: it records the invocation and the position of the
\* class name in its value
reportDetected(node, detected, path) ==
  [k \in 1..Len(detected) |->
     [node |-> node, messageId |-> "negativeArbitraryValue",
      data |-> [classname |-> detected[k].classname],
      from |-> [path |-> path, index |-> detected[k].index]]]

\* lines 130-147
classify(node, value, trim, path, separator) ==
  reportDetected(node,
    filterDetected(getClassNamesFromAttribute(value, trim), 1, separator), path)

Join(a, b) == [calls |-> a.calls \o b.calls, reports |-> a.reports \o b.reports]

RECURSIVE parseForNegativeArbitraryClassNames(_, _, _, _)
RECURSIVE forEach(_, _, _, _, _)

\* lines 75-148; the result is the log of the invocations made and the
\* reports sent to context.report, both in order
parseForNegativeArbitraryClassNames(node, arg, path, separator) ==
  IF arg # NULL /\ arg.type \in Recursing
  THEN Join([calls |-> <<Invocation(path, FALSE, FALSE, JsNull, FALSE)>>,
             reports |-> <<>>],
            forEach(node, ChildrenOf(arg), 1, path, separator))
  ELSE [calls |-> <<Invocation(path, arg = NULL, TRUE,
                               originalClassNamesValue(node, arg), trimOf(arg))>>,
        reports |-> classify(node, originalClassNamesValue(node, arg),
                             trimOf(arg), path, separator)]

\* the loop given up at a child of a shape the switch has no case for
forEach_StopAtUnsupported(node, children, i, path, separator) ==
  IF i > Len(children) THEN [calls |-> <<>>, reports |-> <<>>]
  ELSE IF /\ children[i].node # NULL
          /\ children[i].node.type \notin Recursing \cup {"Literal", "TemplateElement"}
       THEN [calls |-> <<>>, reports |-> <<>>]
       ELSE Join(parseForNegativeArbitraryClassNames(
                   node, children[i].node, Append(path, children[i].step), separator),
                 forEach(node, children, i + 1, path, separator))

\* Array.prototype.forEach over the children, each handed to the function
forEach(node, children, i, path, separator) ==
  IF i > Len(children) THEN [calls |-> <<>>, reports |-> <<>>]
  ELSE Join(parseForNegativeArbitraryClassNames(
              node, children[i].node, Append(path, children[i].step), separator),
            forEach(node, children, i + 1, path, separator))

(***************************************************************************)
(* The inputs: the option sets, the attribute values and the expression    *)
(* trees the host engine hands to the visitors.                            *)
(***************************************************************************)
Separators == {":", "_"}

\* lines 59-63: the options the rule is created with
Options ==
  {[callees |-> {"clsx", "ctl"}, tags |-> {"tw"}, separator |-> sep] :
     sep \in Separators}

\* "a -top-[1] b -z-[2]"
TwoMatches ==
  <<"a"," ","-","t","o","p","-","[","1","]"," ","b"," ","-","z","-","[","2","]">>
\* "-z-[2] -z-[2]"
SameTwice == <<"-","z","-","[","2","]"," ","-","z","-","[","2","]">>
\* "  md:-m-[1]  "
Padded == <<" "," ","m","d",":","-","m","-","[","1","]"," "," ">>
\* "-top-[1] " and " b -z-[2]", the pieces of a template
HeadPiece == <<"-","t","o","p","-","[","1","]"," ">>
TailPiece == <<" ","b"," ","-","z","-","[","2","]">>

Leaves ==
  {Literal(JsString(TwoMatches)), Literal(JsString(SameTwice)),
   Literal(JsString(Padded)), Literal(JsString(<<"a">>)),
   Literal(JsNumber), Identifier}

\* the expressions that hold t as one operand, element, key or piece
Around(t) ==
  {ConditionalExpression(t, Literal(JsString(SameTwice))),
   ConditionalExpression(Literal(JsString(TwoMatches)), t),
   LogicalExpression(t, Identifier),
   LogicalExpression(Literal(JsString(TwoMatches)), t),
   ArrayExpression(<<t, Literal(JsString(SameTwice))>>),
   ArrayExpression(<<NULL, t>>),
   ArrayExpression(<<SpreadElement(t), Literal(JsString(Padded))>>),
   ObjectExpression(<<Property(t, Literal(JsString(TwoMatches)))>>),
   ObjectExpression(<<Property(Literal(JsString(SameTwice)), t)>>),
   ObjectExpression(<<SpreadElement(t), Property(Identifier, Identifier)>>),
   TemplateLiteral(<<t>>, <<TemplateElement(HeadPiece), TemplateElement(TailPiece)>>)}

RECURSIVE Trees(_)
Trees(depth) ==
  IF depth = 0 THEN Leaves
  ELSE Leaves \cup UNION {Around(t) : t \in Trees(depth - 1)}

CallExpressionNodes ==
  {[type |-> "CallExpression", callee |-> [name |-> "clsx"], arguments |-> <<t>>] :
     t \in Trees(MaxDepth)}
  \cup
  {[type |-> "CallExpression", callee |-> [name |-> name], arguments |-> <<l, t>>] :
     name \in {"ctl", "other"}, l \in Leaves, t \in Trees(1)}
  \cup
  {[type |-> "CallExpression", callee |-> [name |-> "ctl"], arguments |-> <<>>]}

TaggedTemplateExpressionNodes ==
  {[type |-> "TaggedTemplateExpression", tag |-> [name |-> name],
    quasi |-> TemplateLiteral(<<t>>, <<TemplateElement(HeadPiece),
                                       TemplateElement(TailPiece)>>)] :
     name \in {"tw", "other"}, t \in Trees(MaxDepth - 1)}
  \cup
  {[type |-> "TaggedTemplateExpression", tag |-> [name |-> "tw"],
    quasi |-> TemplateLiteral(<<>>, <<TemplateElement(p)>>)] :
     p \in {HeadPiece, TailPiece, Padded}}

(***************************************************************************)
(* Attribute values: class names put together from a dash, a family name,  *)
(* an axis or direction, and a bracketed value; malformed neighbours of    *)
(* them; and the same behind a variant prefix.                             *)
(***************************************************************************)
FamilyNames ==
  {<<"i","n","s","e","t">>, <<"s","c","a","l","e">>, <<"t","o","p">>,
   <<"r","i","g","h","t">>, <<"b","o","t","t","o","m">>, <<"l","e","f","t">>,
   <<"z">>, <<"o","r","d","e","r">>, <<"m">>, <<"s","c","r","o","l","l","-","m">>,
   <<"s","k","e","w">>, <<"s","p","a","c","e">>,
   <<"t","r","a","n","s","l","a","t","e">>, <<"r","o","t","a","t","e">>,
   <<"t","r","a","c","k","i","n","g">>, <<"i","n","d","e","n","t">>,
   <<"h","u","e","-","r","o","t","a","t","e">>,
   <<"b","a","c","k","d","r","o","p","-","h","u","e","-","r","o","t","a","t","e">>,
   <<"f","o","o">>, <<"T","O","P">>, <<"S","k","e","w","-","X">>}

Endings ==
  {<<>>, <<"-","x">>, <<"-","y">>, <<"y">>, <<"x">>, <<"t">>, <<"r">>, <<"l">>, <<"b">>}

\* the characters of the bracketed values
ContentChars == {"1", ":", "_", " "}

RECURSIVE Contents(_)
Contents(n) ==
  IF n = 0 THEN {<<>>}
  ELSE Contents(n - 1)
       \cup {Append(c, ch) : c \in {d \in Contents(n - 1) : Len(d) = n - 1},
                             ch \in ContentChars}

WellFormed ==
  {<<"-">> \o f \o e \o <<"-","[">> \o c \o <<"]">> :
     f \in FamilyNames, e \in Endings, c \in Contents(1)}
  \cup
  {<<"-">> \o f \o <<"-","[">> \o c \o <<"]">> :
     f \in FamilyNames, c \in Contents(MaxContent)}

Malformed ==
  {<<"-","t","o","p">>, <<"t","o","p","-","[","1","]">>,
   <<"-","t","o","p","-","[","1","]","x">>, <<"-","t","o","p","p","-","[","1","]">>,
   <<"x","-","t","o","p","-","[","1","]">>, <<"-","t","o","p","[","1","]">>,
   <<"-","t","o","p","-","1","]">>, <<"-","t","o","p","-","[","1">>,
   <<"-","-","t","o","p","-","[","1","]">>, <<"-","m","-","x","-","[","1","]">>,
   <<"-","s","c","r","o","l","l","-","[","1","]">>, <<"-","h","u","e","-","[","1","]">>,
   <<"-","s","c","r","o","l","l","-","m">>, <<"-","t","o","p","-","[","]","]">>,
   <<"-","z","-","[","[","]">>, <<>>}

Variants == {<<"m","d",":">>, <<"a",":","b",":">>, <<"m","_">>, <<"-","[",":">>}

Behind ==
  {v \o c : v \in Variants,
            c \in Malformed \cup {<<"-","t","o","p","-","[","1","]">>,
                                  <<"-","m","x","-","[","]">>,
                                  <<"-","s","k","e","w","-","[","1","]">>,
                                  <<"-","z","-","[","1",":","]">>,
                                  <<"-","z","-","[","_","]">>}}

Several == {TwoMatches, SameTwice, Padded, HeadPiece, TailPiece}

AttributeValues ==
  {JsString(c) : c \in WellFormed \cup Malformed \cup Behind \cup Several}
  \cup {JsNumber, JsUndefined}

AttributeNode(type, name, value) == [type |-> type, name |-> name, value |-> value]

JSXAttributeNodes ==
  {AttributeNode("JSXAttribute", "className", v) : v \in AttributeValues}
  \cup {AttributeNode("JSXAttribute", "id", JsString(c)) : c \in Several}

TextAttributeNodes ==
  {AttributeNode("TextAttribute", name, JsString(c)) :
     name \in {"class", "id"}, c \in Malformed \cup Behind \cup Several}

VAttributeNodes ==
  {AttributeNode("VAttribute", name, v) :
     name \in {"class", "id"},
     v \in {JsString(c) : c \in Behind \cup Several} \cup {JsUndefined}}

(***************************************************************************)
(* The rule: create(context) and the visitors it registers.                *)
(***************************************************************************)
NoSite == [type |-> "Program"]

Init ==
  /\ options \in Options
  /\ site = NoSite
  /\ calls = <<>>
  /\ reports = <<>>

\* The rule keeps no state between two callbacks (everything create() binds
\* is const), so a behaviour follows the rule through one callback.
Idle == site = NoSite

\* what a visitor leaves behind when it returns
Returned(node, result) ==
  /\ site' = node
  /\ calls' = result.calls
  /\ reports' = result.reports
  /\ UNCHANGED options

Nothing == [calls |-> <<>>, reports |-> <<>>]

\* lines 154-159
attributeVisitor(node) ==
  IF ~isValidAttribute(node)
  THEN Returned(node, Nothing)
  ELSE Returned(node,
         parseForNegativeArbitraryClassNames(node, NULL, <<>>, options.separator))

JSXAttribute ==
  /\ Idle
  /\ \E node \in JSXAttributeNodes : attributeVisitor(node)

TextAttribute ==
  /\ Idle
  /\ \E node \in TextAttributeNodes : attributeVisitor(node)

\* lines 164-171
CallExpressionVisitor(node) ==
  IF node.callee.name \notin options.callees
  THEN Returned(node, Nothing)
  ELSE Returned(node,
         forEach(node,
                 [i \in 1..Len(node.arguments) |->
                    Child("arguments", i, node.arguments[i])],
                 1, <<>>, options.separator))

CallExpression ==
  /\ Idle
  /\ \E node \in CallExpressionNodes : CallExpressionVisitor(node)

\* lines 172-177
TaggedTemplateExpressionVisitor(node) ==
  IF node.tag.name \notin options.tags
  THEN Returned(node, Nothing)
  ELSE Returned(node,
         parseForNegativeArbitraryClassNames(
           node, node.quasi, <<<<"quasi", 0>>>>, options.separator))

TaggedTemplateExpression ==
  /\ Idle
  /\ \E node \in TaggedTemplateExpressionNodes : TaggedTemplateExpressionVisitor(node)

\* lines 181-186
VAttributeVisitor(node) ==
  IF ~isValidAttribute(node)
  THEN Returned(node, Nothing)
  ELSE Returned(node,
         parseForNegativeArbitraryClassNames(node, NULL, <<>>, options.separator))

VAttribute ==
  /\ Idle
  /\ \E node \in VAttributeNodes : VAttributeVisitor(node)

Next ==
  \/ JSXAttribute
  \/ TextAttribute
  \/ CallExpression
  \/ TaggedTemplateExpression
  \/ VAttribute

Spec == Init /\ [][Next]_vars

(***************************************************************************)
(* Properties.  The vocabulary they are stated in.                         *)
(***************************************************************************)
\* the families the catalog lists, each with and without its axis or direction
Axial == {<<"i","n","s","e","t">>, <<"s","c","a","l","e">>, <<"s","k","e","w">>,
          <<"s","p","a","c","e">>, <<"t","r","a","n","s","l","a","t","e">>}
AxisRequired == {<<"s","k","e","w">>, <<"s","p","a","c","e">>,
                 <<"t","r","a","n","s","l","a","t","e">>}
Directional == {<<"m">>, <<"s","c","r","o","l","l","-","m">>}
Plain ==
  {<<"t","o","p">>, <<"r","i","g","h","t">>, <<"b","o","t","t","o","m">>,
   <<"l","e","f","t">>, <<"z">>, <<"o","r","d","e","r">>, <<"r","o","t","a","t","e">>,
   <<"t","r","a","c","k","i","n","g">>, <<"i","n","d","e","n","t">>,
   <<"h","u","e","-","r","o","t","a","t","e">>,
   <<"b","a","c","k","d","r","o","p","-","h","u","e","-","r","o","t","a","t","e">>}

CatalogForms ==
  Plain \cup Axial \cup Directional
  \cup {f \o a : f \in Axial, a \in {<<"-","x">>, <<"-","y">>}}
  \cup {f \o d : f \in Directional,
                 d \in {<<"y">>, <<"x">>, <<"t">>, <<"r">>, <<"l">>, <<"b">>}}

\* the same, an axis being part of the name of skew, space and translate
CatalogFormsAxisRequired == CatalogForms \ AxisRequired

\* s is  - <form> - [ <content> ]  with form among forms and content among ok
Shaped(s, forms, ok(_)) ==
  \E f \in forms :
    /\ Len(s) >= Len(f) + 4
    /\ SubSeq(s, 1, Len(f) + 3) = <<"-">> \o f \o <<"-","[">>
    /\ s[Len(s)] = "]"
    /\ ok(SubSeq(s, Len(f) + 4, Len(s) - 1))

PartAfterLast(t, ch) ==
  LET n == IF \E i \in 1..Len(t) : t[i] = ch
           THEN CHOOSE i \in 1..Len(t) : t[i] = ch /\ \A j \in (i + 1)..Len(t) : t[j] # ch
           ELSE 0
  IN  SubSeq(t, n + 1, Len(t))

NonEmpty(c) == c # <<>>
AnyContent(c) == TRUE
PlainContent(c) ==
  c # <<>> /\ \A i \in 1..Len(c) : ~IsSpace(c[i]) /\ c[i] # options.separator

IsAttribute == site.type \in {"JSXAttribute", "TextAttribute", "VAttribute"}
ValidAttribute ==
  /\ IsAttribute
  /\ site.name \in {"class", "className"}
  /\ site.value.typeof = "string"
OneToken ==
  /\ ValidAttribute
  /\ site.value.chars # <<>>
  /\ \A i \in 1..Len(site.value.chars) : ~IsSpace(site.value.chars[i])

Classnames == [k \in 1..Len(reports) |-> reports[k].data.classname]

\* C1 as stated: for every catalog family, with or without its axis or
\* direction, and every non-empty bracket content, the class name
\* -<family>-[<content>] is reported, with itself as classname.
C1_EveryCatalogFormReported ==
  (ValidAttribute /\ Shaped(site.value.chars, CatalogForms, NonEmpty))
    => Classnames = <<site.value.chars>>

\* C1 amended: the same for every catalog family where skew, space and
\* translate always carry their axis, and for every non-empty bracket
\* content that holds neither white space nor the separator.
C1_CatalogFormReported ==
  (ValidAttribute /\ Shaped(site.value.chars, CatalogFormsAxisRequired, PlainContent))
    => /\ Classnames = <<site.value.chars>>
       /\ reports[1].node = site

C1_Witness ==
  /\ ValidAttribute
  /\ site.value.chars = <<"-","s","c","r","o","l","l","-","m","x","-","[","1","]">>
  /\ Len(reports) = 1

\* C2 as stated: a class name is reported only if the part after its last
\* separator is a dash, a catalog family with optional axis or direction,
\* a dash, an opening bracket, one or more characters, a closing bracket.
C2_ReportedOnlyIfShapedNonEmpty ==
  \A k \in 1..Len(reports) :
    Shaped(LowerCase(PartAfterLast(reports[k].data.classname, options.separator)),
           CatalogForms, NonEmpty)

\* C2 amended: the same with zero or more characters between the brackets
\* (family names compared without case).
C2_ReportedOnlyIfShaped ==
  \A k \in 1..Len(reports) :
    Shaped(LowerCase(PartAfterLast(reports[k].data.classname, options.separator)),
           CatalogForms, AnyContent)

C2_Witness ==
  /\ ValidAttribute
  /\ site.value.chars = <<"m","d",":","-","m","x","-","[","]">>
  /\ options.separator = ":"
  /\ Len(reports) = 1

\* C3: the verdict on a class name is the verdict on the part after the last
\* separator alone (the whole name when it holds no separator), and a class
\* name that is reported is reported whole, variant prefix included.
C3_VerdictOfSuffix ==
  OneToken =>
    /\ (reports # <<>>) <=>
         Shaped(LowerCase(PartAfterLast(site.value.chars, options.separator)),
                CatalogFormsAxisRequired, AnyContent)
    /\ reports # <<>> => Classnames = <<site.value.chars>>

C3_Witness ==
  /\ OneToken
  /\ site.value.chars = <<"a",":","b",":","-","t","o","p","-","[","1","]">>
  /\ Classnames = <<site.value.chars>>

(***************************************************************************)
(* The tree under the site, read independently of the walk.                *)
(***************************************************************************)
Into(n, st) ==
  CASE st[1] = "arguments" -> n.arguments[st[2]]
    [] st[1] = "quasi" -> n.quasi
    [] st[1] = "expressions" -> n.expressions[st[2]]
    [] st[1] = "quasis" -> n.quasis[st[2]]
    [] st[1] = "consequent" -> n.consequent
    [] st[1] = "alternate" -> n.alternate
    [] st[1] = "left" -> n.left
    [] st[1] = "right" -> n.right
    [] st[1] = "elements" -> n.elements[st[2]]
    [] st[1] = "key" -> n.properties[st[2]].key
    [] st[1] = "value" -> n.properties[st[2]].value
    [] st[1] = "argument" -> n.properties[st[2]].argument

RECURSIVE NodeAt(_, _)
NodeAt(n, path) ==
  IF path = <<>> THEN n ELSE NodeAt(Into(n, Head(path)), Tail(path))

TypeOf(n) == IF n = NULL THEN "null" ELSE n.type

\* the children the extraction is to descend into, by the shape of the node
Prescribed(n) ==
  CASE TypeOf(n) = "CallExpression" -> {<<"arguments", i>> : i \in 1..Len(n.arguments)}
    [] TypeOf(n) = "TaggedTemplateExpression" -> {<<"quasi", 0>>}
    [] TypeOf(n) = "TemplateLiteral" ->
         {<<"expressions", i>> : i \in 1..Len(n.expressions)}
         \cup {<<"quasis", i>> : i \in 1..Len(n.quasis)}
    [] TypeOf(n) = "ConditionalExpression" -> {<<"consequent", 0>>, <<"alternate", 0>>}
    [] TypeOf(n) = "LogicalExpression" -> {<<"right", 0>>}
    [] TypeOf(n) = "ArrayExpression" -> {<<"elements", i>> : i \in 1..Len(n.elements)}
    [] TypeOf(n) = "ObjectExpression" ->
         {<<IF n.properties[i].type = "SpreadElement" THEN "argument" ELSE "key", i>> :
            i \in 1..Len(n.properties)}
    [] OTHER -> {}

\* the string a node carries, if it carries one
NoString == [typeof |-> "none", chars |-> <<>>]
StringAt(path) ==
  LET n == NodeAt(site, path)
  IN  CASE TypeOf(n) \in {"JSXAttribute", "TextAttribute", "VAttribute"} -> n.value
        [] TypeOf(n) = "Literal" -> n.value
        [] TypeOf(n) = "TemplateElement" -> n.value.raw
        [] OTHER -> NoString

IsMatch(t) ==
  Shaped(LowerCase(PartAfterLast(t, options.separator)),
         CatalogFormsAxisRequired, AnyContent)

\* the class names of a value that are to be reported, in their order
Expected(value) ==
  IF value.typeof # "string" THEN <<>>
  ELSE SelectSeq(SplitOnSpace(value.chars, 1, <<>>), IsMatch)

Scanned(path) == \E k \in 1..Len(calls) : calls[k].path = path

PositionOf(path) == CHOOSE k \in 1..Len(calls) : calls[k].path = path

ClassnamesFrom(path) ==
  LET rs == SelectSeq(reports, LAMBDA r : r.from.path = path)
  IN  [k \in 1..Len(rs) |-> rs[k].data.classname]

\* the child of the node at path is descended into, and what it holds is reported
Extracted(path, st) ==
  /\ Scanned(Append(path, st))
  /\ ClassnamesFrom(Append(path, st)) = Expected(StringAt(Append(path, st)))

Through(path, label) == \E i \in 1..Len(path) : path[i][1] = label

Running == site.type \in {"CallExpression", "TaggedTemplateExpression"} /\ calls # <<>>

\* C4: of a logical expression reached by the extraction only the right
\* operand is descended into: what matches there is reported, and nothing
\* is scanned or reported from a left operand, however deep.
C4_RightOperandOnly ==
  /\ \A k \in 1..Len(calls) :
       TypeOf(NodeAt(site, calls[k].path)) = "LogicalExpression"
         => /\ Extracted(calls[k].path, <<"right", 0>>)
            /\ ~Scanned(Append(calls[k].path, <<"left", 0>>))
  /\ \A k \in 1..Len(calls) : ~Through(calls[k].path, "left")
  /\ \A k \in 1..Len(reports) : ~Through(reports[k].from.path, "left")

C4_Witness ==
  \E k \in 1..Len(calls) :
    LET n == NodeAt(site, calls[k].path)
    IN  /\ TypeOf(n) = "LogicalExpression"
        /\ Len(calls[k].path) >= 2
        /\ TypeOf(n.left) = "Literal" /\ Expected(n.left.value) # <<>>
        /\ TypeOf(n.right) = "Literal" /\ Expected(n.right.value) # <<>>
        /\ ClassnamesFrom(Append(calls[k].path, <<"right", 0>>)) = Expected(n.right.value)

\* C5: of a template literal every interpolated expression and every literal
\* piece is extracted, of a conditional expression both branches; what
\* matches in any of them is reported whatever the others hold.
C5_TemplateAndConditional ==
  \A k \in 1..Len(calls) :
    LET n == NodeAt(site, calls[k].path)
    IN  /\ TypeOf(n) = "TemplateLiteral"
             => /\ \A i \in 1..Len(n.expressions) : Extracted(calls[k].path, <<"expressions", i>>)
                /\ \A i \in 1..Len(n.quasis) : Extracted(calls[k].path, <<"quasis", i>>)
        /\ TypeOf(n) = "ConditionalExpression"
             => /\ Extracted(calls[k].path, <<"consequent", 0>>)
                /\ Extracted(calls[k].path, <<"alternate", 0>>)

C5_Witness ==
  /\ site.type = "TaggedTemplateExpression"
  /\ \E k \in 1..Len(calls) :
       LET n == NodeAt(site, calls[k].path)
       IN  /\ TypeOf(n) = "ConditionalExpression"
           /\ ClassnamesFrom(Append(calls[k].path, <<"consequent", 0>>)) # <<>>
           /\ ClassnamesFrom(Append(calls[k].path, <<"alternate", 0>>)) # <<>>
  /\ ClassnamesFrom(<<<<"quasi", 0>>, <<"quasis", 1>>>>) # <<>>
  /\ ClassnamesFrom(<<<<"quasi", 0>>, <<"quasis", 2>>>>) # <<>>

\* C6: of an array literal every element is descended into, in order; of an
\* object literal the key of every property and the argument of every
\* spread, and never the value of a property.
C6_ElementsKeysAndSpreads ==
  /\ \A k \in 1..Len(calls) :
       LET n == NodeAt(site, calls[k].path)
       IN  /\ TypeOf(n) = "ArrayExpression"
                => /\ \A i \in 1..Len(n.elements) : Extracted(calls[k].path, <<"elements", i>>)
                   /\ \A i, j \in 1..Len(n.elements) :
                        i < j => PositionOf(Append(calls[k].path, <<"elements", i>>))
                                   < PositionOf(Append(calls[k].path, <<"elements", j>>))
           /\ TypeOf(n) = "ObjectExpression"
                => \A i \in 1..Len(n.properties) :
                     /\ ~Scanned(Append(calls[k].path, <<"value", i>>))
                     /\ IF n.properties[i].type = "SpreadElement"
                        THEN Extracted(calls[k].path, <<"argument", i>>)
                        ELSE Extracted(calls[k].path, <<"key", i>>)
  /\ \A k \in 1..Len(calls) : ~Through(calls[k].path, "value")
  /\ \A k \in 1..Len(reports) : ~Through(reports[k].from.path, "value")

C6_Witness ==
  \E k \in 1..Len(calls) :
    LET n == NodeAt(site, calls[k].path)
    IN  /\ TypeOf(n) = "ObjectExpression"
        /\ n.properties[1].type = "Property"
        /\ TypeOf(n.properties[1].key) = "Literal"
        /\ Expected(n.properties[1].key.value) # <<>>
        /\ TypeOf(n.properties[1].value) = "Literal"
        /\ Expected(n.properties[1].value.value) # <<>>
        /\ Classnames = Expected(n.properties[1].key.value)

RECURSIVE ExpectedCount(_)
ExpectedCount(k) ==
  IF k = 0 THEN 0
  ELSE ExpectedCount(k - 1)
       + (IF calls[k].reached THEN Len(Expected(StringAt(calls[k].path))) ELSE 0)

\* C7: when a callback has returned there is one diagnostic per matching
\* class name of the strings extracted from the site, repeated names
\* counted each time; each carries the node the callback was given and the
\* matched class name.
C7_OneDiagnosticPerMatch ==
  /\ Len(reports) = ExpectedCount(Len(calls))
  /\ \A k \in 1..Len(reports) :
       /\ reports[k].node = site
       /\ IsMatch(reports[k].data.classname)
       /\ reports[k].data.classname
            = SplitOnSpace(StringAt(reports[k].from.path).chars, 1, <<>>)[reports[k].from.index]

C7_Witness ==
  /\ site.type = "CallExpression"
  /\ Len(calls) >= 3
  /\ \E i, j \in 1..Len(reports) :
       /\ i < j
       /\ reports[i].data.classname = reports[j].data.classname
       /\ reports[i].from.path = reports[j].from.path
  /\ \E i, j \in 1..Len(reports) :
       /\ reports[i].data.classname = reports[j].data.classname
       /\ reports[i].from.path # reports[j].from.path

\* where a child stands among the children of its parent: in the source
\* text (the pieces and the interpolations of a template alternate) ...
SourceRank(st) ==
  CASE st[1] = "quasis" -> 2 * st[2] - 1
    [] st[1] = "expressions" -> 2 * st[2]
    [] st[1] = "alternate" -> 2
    [] st[1] = "consequent" -> 1
    [] OTHER -> st[2]

\* ... and in the extraction (the interpolations of a template, then its pieces)
ExtractionRank(st, parent) ==
  CASE st[1] = "quasis" -> Len(parent.expressions) + st[2]
    [] st[1] = "alternate" -> 2
    [] st[1] = "consequent" -> 1
    [] OTHER -> st[2]

FirstDifference(p, q) ==
  CHOOSE i \in 1..Len(p) : p[i] # q[i] /\ \A j \in 1..(i - 1) : p[j] = q[j]

BeforeInSource(a, b) ==
  IF a.path = b.path THEN a.index < b.index
  ELSE LET d == FirstDifference(a.path, b.path)
       IN  SourceRank(a.path[d]) < SourceRank(b.path[d])

BeforeInExtraction(a, b) ==
  IF a.path = b.path THEN a.index < b.index
  ELSE LET d == FirstDifference(a.path, b.path)
           parent == NodeAt(site, SubSeq(a.path, 1, d - 1))
       IN  ExtractionRank(a.path[d], parent) < ExtractionRank(b.path[d], parent)

\* C8 as stated: the diagnostics of a site list the matched class names in
\* their left-to-right order in the source, within one string and across
\* the strings of the site.
C8_ReportsInSourceOrder ==
  \A i, j \in 1..Len(reports) :
    i < j => BeforeInSource(reports[i].from, reports[j].from)

\* C8 amended: within one string the diagnostics keep the order of the class
\* names; across the strings of a site they follow the source order of call
\* arguments, conditional branches, array elements and object keys, except
\* that the diagnostics of all the interpolated expressions of a template
\* literal come before those of all its literal pieces.
C8_ReportsInExtractionOrder ==
  \A i, j \in 1..Len(reports) :
    i < j => BeforeInExtraction(reports[i].from, reports[j].from)

C8_Witness ==
  /\ site.type = "CallExpression"
  /\ \E i \in 1..(Len(reports) - 1) :
       /\ Through(reports[i].from.path, "expressions")
       /\ reports[i + 1].from.path
            = Append(SubSeq(reports[i].from.path, 1, Len(reports[i + 1].from.path) - 1),
                     <<"quasis", 1>>)
  /\ \E i \in 1..(Len(reports) - 1) :
       /\ reports[i].from.path = reports[i + 1].from.path
       /\ reports[i].data.classname # reports[i + 1].data.classname

Supported ==
  {"TemplateLiteral", "TemplateElement", "ConditionalExpression",
   "LogicalExpression", "ArrayExpression", "ObjectExpression", "Literal"}

Unsupported(n) ==
  /\ n # NULL
  /\ \/ n.type \notin Supported
     \/ n.type = "Literal" /\ n.value.typeof # "string"

\* C9: a node reached by the extraction whose shape is not supported (an
\* identifier, a spread element among array elements, a literal that is
\* not a string) hands no string on and yields no diagnostic, and every
\* other child its parent prescribes is still scanned.
C9_UnsupportedShapesSkipped ==
  Running =>
    \A k \in 1..Len(calls) :
      Unsupported(NodeAt(site, calls[k].path))
        => /\ calls[k].reached
           /\ calls[k].value.typeof # "string"
           /\ ClassnamesFrom(calls[k].path) = <<>>
           /\ LET parent == SubSeq(calls[k].path, 1, Len(calls[k].path) - 1)
              IN  \A st \in Prescribed(NodeAt(site, parent)) :
                    Extracted(parent, st)

C9_Witness ==
  /\ Running
  /\ \E k \in 1..Len(calls) :
       /\ TypeOf(NodeAt(site, calls[k].path)) = "SpreadElement"
       /\ calls[k].path[Len(calls[k].path)] = <<"elements", 1>>
       /\ ClassnamesFrom(Append(SubSeq(calls[k].path, 1, Len(calls[k].path) - 1),
                                <<"elements", 2>>)) # <<>>
  /\ \E k \in 1..Len(calls) : NodeAt(site, calls[k].path) = Literal(JsNumber)

\* C10: at a call or a tagged template the extraction never runs the branch
\* arg === null, which reads the value of the site itself, and no child is
\* scanned twice.
C10_SiteValueReadByAttributesOnly ==
  site.type \in {"CallExpression", "TaggedTemplateExpression"}
    => /\ \A k \in 1..Len(calls) : ~calls[k].argIsNull
       /\ \A j, k \in 1..Len(calls) : j # k => calls[j].path # calls[k].path

====
